---- MODULE Spec2Model ----
(***************************************************************************)
(* VsphereInspector (monasca_agent/collector/virt/vmware/inspector.py).    *)
(*                                                                         *)
(* The inspector answers four inspection requests for an instance: CPU     *)
(* utilisation and memory usage (one aggregate value each) and vNIC and    *)
(* disk rates (Python generators that fan out one pair per device).  The   *)
(* collaborator self._ops (VsphereOperations) is outside the file; its     *)
(* answers are inputs of the model.  Every collaborator call of every      *)
(* inspection call is recorded in that call's log, in the order made.      *)
(*                                                                         *)
(* The file is Python 2 (dict.iterkeys, no "from __future__ import         *)
(* division"): "/" between two integers is floor division.                 *)
(***************************************************************************)
EXTENDS Integers, Sequences, FiniteSets, TLC

(* ------------------------------------------------------------------ *)
(* Bounds and input domains                                            *)
(* ------------------------------------------------------------------ *)

\* Largest raw aggregate value the query engine returns (values 0..MaxRaw).
MaxRaw == 4567

\* The two slots in which inspection calls (generator frames) can live.
Calls == {"a", "b"}

\* Slot used when calls are made one at a time.
SeqCalls == {"a"}

Instances == {"vm-1", "vm-2", "vm-404", "vm-blank"}

Durations == {"None", "60"}

Devices == {"d1", "d2"}

RawRates == {5, 7}

\* Python's None.
None == "None"

\* Python's empty string, a falsy value that is not None.
EmptyStr == ""

InstanceNotFoundException == "InstanceNotFoundException"

\* Errors the collaborator raises; the inspector has no handler for them.
CounterResolutionError == "CounterResolutionError"

TransportError == "TransportError"

KeyError == "KeyError"

NoError == "NoError"

(* ------------------------------------------------------------------ *)
(* Module constants of inspector.py                                    *)
(* ------------------------------------------------------------------ *)

VC_AVERAGE_MEMORY_CONSUMED_CNTR == "mem:consumed:average"

VC_AVERAGE_CPU_CONSUMED_CNTR == "cpu:usage:average"

VC_NETWORK_RX_COUNTER == "net:received:average"

VC_NETWORK_TX_COUNTER == "net:transmitted:average"

VC_DISK_READ_RATE_CNTR == "disk:read:average"

VC_DISK_READ_REQUESTS_RATE_CNTR == "disk:numberReadAveraged:average"

VC_DISK_WRITE_RATE_CNTR == "disk:write:average"

VC_DISK_WRITE_REQUESTS_RATE_CNTR == "disk:numberWriteAveraged:average"

\* oslo_utils.units.Ki
Ki == 1024

\* The tuple iterated by inspect_vnic_rates, with a swapped variant.
NetCountersSwapped == <<VC_NETWORK_TX_COUNTER, VC_NETWORK_RX_COUNTER>>

NetCounters == <<VC_NETWORK_RX_COUNTER, VC_NETWORK_TX_COUNTER>>

\* The list disk_counters of inspect_disk_rates.
DiskCounters ==
  <<VC_DISK_READ_RATE_CNTR, VC_DISK_READ_REQUESTS_RATE_CNTR,
    VC_DISK_WRITE_RATE_CNTR, VC_DISK_WRITE_REQUESTS_RATE_CNTR>>

CountersOf(k) == IF k = "vnic" THEN NetCounters ELSE DiskCounters

(* ------------------------------------------------------------------ *)
(* The collaborator self._ops (VsphereOperations), outside the file    *)
(* ------------------------------------------------------------------ *)

\* get_vm_moid: the provider inventory.  "vm-404" is not in the inventory
\* (None); "vm-blank" resolves to a falsy value that is not None.
GetVmMoid(instance_id) ==
  CASE instance_id = "vm-1" -> "vm-1-moid"
    [] instance_id = "vm-2" -> "vm-2-moid"
    [] instance_id = "vm-404" -> None
    [] OTHER -> EmptyStr

\* get_perf_counter_id: the counter catalog, one id per counter name.
GetPerfCounterId(counter) ==
  CASE counter = VC_AVERAGE_CPU_CONSUMED_CNTR -> 1
    [] counter = VC_AVERAGE_MEMORY_CONSUMED_CNTR -> 2
    [] counter = VC_NETWORK_RX_COUNTER -> 3
    [] counter = VC_NETWORK_TX_COUNTER -> 4
    [] counter = VC_DISK_READ_RATE_CNTR -> 5
    [] counter = VC_DISK_READ_REQUESTS_RATE_CNTR -> 6
    [] counter = VC_DISK_WRITE_RATE_CNTR -> 7
    [] OTHER -> 8

\* query_vm_aggregate_stats returns one integer ("only longs", line 101).
AggregateValues == 0..MaxRaw

\* query_vm_device_stats returns a dict device id -> value.
DeviceMaps == UNION {[D -> RawRates] : D \in SUBSET Devices}

\* The answers used when two calls are interleaved.
ConcMaps == {m \in DeviceMaps : DOMAIN m = {} \/ m = [d \in Devices |-> IF d = "d1" THEN 5 ELSE 7]}

ConcValues == {1234}

EmptyMap == [d \in {} |-> 0]

\* One entry of a call's log of collaborator calls.
LogEntry(op, args, ret, raised) ==
  [op |-> op, args |-> args, ret |-> ret, raised |-> raised]

(* ------------------------------------------------------------------ *)
(* Pure helpers of the inspector                                       *)
(* ------------------------------------------------------------------ *)

\* Python 2 "/" on two integers.
PyDiv(a, b) == a \div b

\* dict.get(key, default)
Get(m, key, default) == IF key \in DOMAIN m THEN m[key] ELSE default

\* "if vm_moid is None" (inspect_cpu_util, inspect_memory_usage)
NeverNotFound(vm_moid) == FALSE

NotFoundAggregate(vm_moid) == vm_moid = None

\* "if not vm_moid" (inspect_vnic_rates, inspect_disk_rates)
NotFoundFanOut(vm_moid) == vm_moid = None \/ vm_moid = EmptyStr

\* vnic_ids.update(m.iterkeys()), with a variant that overwrites the set.
UpdateIdsOverwrite(ids, m) == DOMAIN m

UpdateIds(ids, m) == ids \cup DOMAIN m

\* The frame that holds a call's locals (vnic_stats, vnic_ids, ...), with
\* a variant in which every call uses the same storage.
FrameShared(c) == "a"

Frame(c) == c

NoResult == [type |-> "none"]

CPUUtilStats(util) == [type |-> "CPUUtilStats", util |-> util]

MemoryUsageStats(usage) == [type |-> "MemoryUsageStats", usage |-> usage]

\* The pair yielded by inspect_vnic_rates for one vnic id, with a variant
\* that reads both fields from the rx map.
VnicPairRxOnly(stats, vnic_id) ==
  [dev |-> [type |-> "Interface", name |-> vnic_id, mac |-> None,
            fref |-> None, parameters |-> None],
   stats |-> [type |-> "InterfaceRateStats",
              rx_bytes_rate |-> Get(stats[VC_NETWORK_RX_COUNTER], vnic_id, 0) * Ki,
              tx_bytes_rate |-> Get(stats[VC_NETWORK_RX_COUNTER], vnic_id, 0) * Ki]]

VnicPair(stats, vnic_id) ==
  [dev |-> [type |-> "Interface", name |-> vnic_id, mac |-> None,
            fref |-> None, parameters |-> None],
   stats |-> [type |-> "InterfaceRateStats",
              rx_bytes_rate |-> Get(stats[VC_NETWORK_RX_COUNTER], vnic_id, 0) * Ki,
              tx_bytes_rate |-> Get(stats[VC_NETWORK_TX_COUNTER], vnic_id, 0) * Ki]]

\* The pair yielded by inspect_disk_rates for one disk id.
DiskPair(stats, disk_id) ==
  [dev |-> [type |-> "Disk", device |-> disk_id],
   stats |-> [type |-> "DiskRateStats",
              read_bytes_rate |-> Get(stats[VC_DISK_READ_RATE_CNTR], disk_id, 0) * Ki,
              read_requests_rate |-> Get(stats[VC_DISK_READ_REQUESTS_RATE_CNTR], disk_id, 0),
              write_bytes_rate |-> Get(stats[VC_DISK_WRITE_RATE_CNTR], disk_id, 0) * Ki,
              write_requests_rate |-> Get(stats[VC_DISK_WRITE_REQUESTS_RATE_CNTR], disk_id, 0)]]

PairOf(k, stats, id) == IF k = "vnic" THEN VnicPair(stats, id) ELSE DiskPair(stats, id)

\* The device id a pair describes.
PairId(p) == IF p.dev.type = "Interface" THEN p.dev.name ELSE p.dev.device

Range(s) == {s[i] : i \in 1..Len(s)}

(* ------------------------------------------------------------------ *)
(* State                                                               *)
(* ------------------------------------------------------------------ *)

VARIABLES
  ops,        \* self._ops, the collaborator reference set by __init__
  kind,       \* per slot: "none", "cpu", "mem", "vnic", "disk"
  pc,         \* per slot: idle, created, loop, iter, done, raised
  instance,   \* per slot: the instance id of the call
  duration,   \* per slot: the duration of the call
  vm_moid,    \* per slot: the local vm_moid
  idx,        \* per slot: position of the counter loop
  dev_stats,  \* per frame: the local vnic_stats / disk_stats
  dev_ids,    \* per frame: the local vnic_ids / disk_ids
  pending,    \* per slot: ids the second loop has not visited yet
  yielded,    \* per slot: the pairs the consumer has received
  result,     \* per slot: the record an aggregate inspection returned
  error,      \* per slot: the exception that reached the caller
  log         \* per slot: the collaborator calls made, in order

vars == <<ops, kind, pc, instance, duration, vm_moid, idx, dev_stats, dev_ids,
          pending, yielded, result, error, log>>

\* VsphereInspector.__init__
Init ==
  /\ ops = "VsphereOperations"
  /\ kind = [c \in Calls |-> "none"]
  /\ pc = [c \in Calls |-> "idle"]
  /\ instance = [c \in Calls |-> ""]
  /\ duration = [c \in Calls |-> None]
  /\ vm_moid = [c \in Calls |-> "unset"]
  /\ idx = [c \in Calls |-> 0]
  /\ dev_stats = [c \in Calls |-> EmptyMap]
  /\ dev_ids = [c \in Calls |-> {}]
  /\ pending = [c \in Calls |-> {}]
  /\ yielded = [c \in Calls |-> <<>>]
  /\ result = [c \in Calls |-> NoResult]
  /\ error = [c \in Calls |-> NoError]
  /\ log = [c \in Calls |-> <<>>]

(* ------------------------------------------------------------------ *)
(* Aggregate inspections: inspect_cpu_util, inspect_memory_usage       *)
(* ------------------------------------------------------------------ *)

\* cpu_util = cpu_util / 100
CpuConvert(raw) == CPUUtilStats(PyDiv(raw, 100))

\* memory = memory / units.Ki
MemConvert(raw) == MemoryUsageStats(PyDiv(raw, Ki))

ConvertOf(k, raw) == IF k = "cpu" THEN CpuConvert(raw) ELSE MemConvert(raw)

\* The common shape of the two aggregate inspections: resolve the entity,
\* check it, resolve the counter, query, convert, return.  A collaborator
\* call that raises ends the call with that exception.
AggregateInspection(c, k, inst, dur, counter, raws) ==
  /\ pc[c] = "idle"
  /\ kind' = [kind EXCEPT ![c] = k]
  /\ instance' = [instance EXCEPT ![c] = inst]
  /\ duration' = [duration EXCEPT ![c] = dur]
  /\ vm_moid' = [vm_moid EXCEPT ![c] = GetVmMoid(inst)]
  /\ LET moid == GetVmMoid(inst)
         e1 == LogEntry("get_vm_moid", <<inst>>, moid, NoError)
         cid == GetPerfCounterId(counter)
         e2 == LogEntry("get_perf_counter_id", <<counter>>, cid, NoError)
     IN IF NotFoundAggregate(moid)
        THEN /\ pc' = [pc EXCEPT ![c] = "raised"]
             /\ error' = [error EXCEPT ![c] = InstanceNotFoundException]
             /\ log' = [log EXCEPT ![c] = <<e1>>]
             /\ UNCHANGED result
        ELSE \/ /\ pc' = [pc EXCEPT ![c] = "raised"]
                /\ error' = [error EXCEPT ![c] = CounterResolutionError]
                /\ log' = [log EXCEPT ![c] =
                     <<e1, LogEntry("get_perf_counter_id", <<counter>>, 0,
                                    CounterResolutionError)>>]
                /\ UNCHANGED result
             \/ /\ pc' = [pc EXCEPT ![c] = "raised"]
                /\ error' = [error EXCEPT ![c] = TransportError]
                /\ log' = [log EXCEPT ![c] =
                     <<e1, e2, LogEntry("query_vm_aggregate_stats",
                                        <<moid, cid, dur>>, 0, TransportError)>>]
                /\ UNCHANGED result
             \/ \E raw \in raws :
                  /\ pc' = [pc EXCEPT ![c] = "done"]
                  /\ result' = [result EXCEPT ![c] = ConvertOf(k, raw)]
                  /\ log' = [log EXCEPT ![c] =
                       <<e1, e2, LogEntry("query_vm_aggregate_stats",
                                          <<moid, cid, dur>>, raw, NoError)>>]
                  /\ UNCHANGED error
  /\ UNCHANGED <<ops, idx, dev_stats, dev_ids, pending, yielded>>

InspectCpuUtil(c, inst, dur, raws) ==
  AggregateInspection(c, "cpu", inst, dur, VC_AVERAGE_CPU_CONSUMED_CNTR, raws)

InspectMemoryUsage(c, inst, dur, raws) ==
  AggregateInspection(c, "mem", inst, dur, VC_AVERAGE_MEMORY_CONSUMED_CNTR, raws)

(* ------------------------------------------------------------------ *)
(* Fan-out inspections: inspect_vnic_rates, inspect_disk_rates         *)
(* ------------------------------------------------------------------ *)

\* Calling a generator function runs none of its body: the caller gets a
\* generator object and the frame waits for the first next().
CreateGenerator(c, k, inst, dur) ==
  /\ pc[c] = "idle"
  /\ kind' = [kind EXCEPT ![c] = k]
  /\ instance' = [instance EXCEPT ![c] = inst]
  /\ duration' = [duration EXCEPT ![c] = dur]
  /\ pc' = [pc EXCEPT ![c] = "created"]
  /\ UNCHANGED <<ops, vm_moid, idx, dev_stats, dev_ids, pending, yielded,
                 result, error, log>>

InspectVnicRates(c, inst, dur) == CreateGenerator(c, "vnic", inst, dur)

InspectDiskRates(c, inst, dur) == CreateGenerator(c, "disk", inst, dur)

\* First next(): vm_moid = self._ops.get_vm_moid(instance.id); if not
\* vm_moid: raise; otherwise the empty locals are created.
ResolveEntity(c) ==
  /\ pc[c] = "created"
  /\ LET moid == GetVmMoid(instance[c])
     IN /\ vm_moid' = [vm_moid EXCEPT ![c] = moid]
        /\ log' = [log EXCEPT ![c] =
             Append(@, LogEntry("get_vm_moid", <<instance[c]>>, moid, NoError))]
        /\ IF NotFoundFanOut(moid)
           THEN /\ pc' = [pc EXCEPT ![c] = "raised"]
                /\ error' = [error EXCEPT ![c] = InstanceNotFoundException]
                /\ UNCHANGED <<idx, dev_stats, dev_ids>>
           ELSE /\ pc' = [pc EXCEPT ![c] = "loop"]
                /\ idx' = [idx EXCEPT ![c] = 1]
                /\ dev_stats' = [dev_stats EXCEPT ![Frame(c)] = EmptyMap]
                /\ dev_ids' = [dev_ids EXCEPT ![Frame(c)] = {}]
                /\ UNCHANGED error
  /\ UNCHANGED <<ops, kind, instance, duration, pending, yielded, result>>

\* The body of the counter loop once the query has returned map m:
\* stats[counter] = m; ids.update(m.iterkeys()); after the last counter the
\* second loop starts iterating the id set.
StoreAndAdvance(c, m, entries) ==
  LET counter == CountersOf(kind[c])[idx[c]]
      ids == UpdateIds(dev_ids[Frame(c)], m)
  IN /\ log' = [log EXCEPT ![c] = @ \o entries]
     /\ dev_stats' = [dev_stats EXCEPT ![Frame(c)] = (counter :> m) @@ @]
     /\ dev_ids' = [dev_ids EXCEPT ![Frame(c)] = ids]
     /\ idx' = [idx EXCEPT ![c] = @ + 1]
     /\ IF idx[c] = Len(CountersOf(kind[c]))
        THEN /\ pc' = [pc EXCEPT ![c] = "iter"]
             /\ pending' = [pending EXCEPT ![c] = ids]
        ELSE UNCHANGED <<pc, pending>>
     /\ UNCHANGED error

\* A variant with a handler around the collaborator calls that treats a
\* failure as "no data" and goes on with the next counter.
SwallowAndContinue(c, entries, err) == StoreAndAdvance(c, EmptyMap, entries)

\* A collaborator call raised inside the generator: there is no handler,
\* the exception leaves the frame and the generator is finished.
RaiseFromCollaborator(c, entries, err) ==
  /\ log' = [log EXCEPT ![c] = @ \o entries]
  /\ pc' = [pc EXCEPT ![c] = "raised"]
  /\ error' = [error EXCEPT ![c] = err]
  /\ UNCHANGED <<idx, dev_stats, dev_ids, pending>>

\* One iteration of "for counter in counters": get_perf_counter_id, then
\* query_vm_device_stats(vm_moid, counter_id, duration).
CounterStep(c, maps) ==
  /\ pc[c] = "loop"
  /\ LET counter == CountersOf(kind[c])[idx[c]]
         cid == GetPerfCounterId(counter)
         e1 == LogEntry("get_perf_counter_id", <<counter>>, cid, NoError)
         qargs == <<vm_moid[c], cid, duration[c]>>
     IN \/ RaiseFromCollaborator(c,
             <<LogEntry("get_perf_counter_id", <<counter>>, 0, CounterResolutionError)>>,
             CounterResolutionError)
        \/ RaiseFromCollaborator(c,
             <<e1, LogEntry("query_vm_device_stats", qargs, EmptyMap, TransportError)>>,
             TransportError)
        \/ \E m \in maps :
             StoreAndAdvance(c, m,
               <<e1, LogEntry("query_vm_device_stats", qargs, m, NoError)>>)
  /\ UNCHANGED <<ops, kind, instance, duration, vm_moid, yielded, result>>

\* One turn of "for dev_id in ids": the set's iteration order is not
\* specified, so any unvisited id may come next; the pair is built from
\* the stats and yielded.  Indexing stats with a counter that is not a key
\* raises KeyError.
YieldPair(c) ==
  /\ pc[c] = "iter"
  /\ pending[c] # {}
  /\ \E id \in pending[c] :
       LET stats == dev_stats[Frame(c)]
           cs == CountersOf(kind[c])
       IN IF \A i \in 1..Len(cs) : cs[i] \in DOMAIN stats
          THEN /\ yielded' = [yielded EXCEPT ![c] = Append(@, PairOf(kind[c], stats, id))]
               /\ pending' = [pending EXCEPT ![c] = @ \ {id}]
               /\ UNCHANGED <<pc, error>>
          ELSE /\ pc' = [pc EXCEPT ![c] = "raised"]
               /\ error' = [error EXCEPT ![c] = KeyError]
               /\ UNCHANGED <<yielded, pending>>
  /\ UNCHANGED <<ops, kind, instance, duration, vm_moid, idx, dev_stats,
                 dev_ids, result, log>>

\* The second loop is over: the generator returns (StopIteration).
Exhaust(c) ==
  /\ pc[c] = "iter"
  /\ pending[c] = {}
  /\ pc' = [pc EXCEPT ![c] = "done"]
  /\ UNCHANGED <<ops, kind, instance, duration, vm_moid, idx, dev_stats,
                 dev_ids, pending, yielded, result, error, log>>

(* ------------------------------------------------------------------ *)
(* Specifications                                                      *)
(* ------------------------------------------------------------------ *)

\* One inspection call at a time, every collaborator answer.
Next ==
  \E c \in SeqCalls :
    \/ \E inst \in Instances, dur \in Durations :
         InspectCpuUtil(c, inst, dur, AggregateValues)
    \/ \E inst \in Instances, dur \in Durations :
         InspectMemoryUsage(c, inst, dur, AggregateValues)
    \/ \E inst \in Instances, dur \in Durations : InspectVnicRates(c, inst, dur)
    \/ \E inst \in Instances, dur \in Durations : InspectDiskRates(c, inst, dur)
    \/ ResolveEntity(c)
    \/ CounterStep(c, DeviceMaps)
    \/ YieldPair(c)
    \/ Exhaust(c)

Spec == Init /\ [][Next]_vars

\* Two inspection calls on the same inspector, interleaved at every
\* collaborator call and every yield.
NextConc ==
  \E c \in Calls :
    \/ \E inst \in Instances : InspectCpuUtil(c, inst, None, ConcValues)
    \/ \E inst \in Instances : InspectMemoryUsage(c, inst, None, ConcValues)
    \/ \E inst \in Instances : InspectVnicRates(c, inst, None)
    \/ \E inst \in Instances : InspectDiskRates(c, inst, None)
    \/ ResolveEntity(c)
    \/ CounterStep(c, ConcMaps)
    \/ YieldPair(c)
    \/ Exhaust(c)

SpecConc == Init /\ [][NextConc]_vars

(* ------------------------------------------------------------------ *)
(* Vocabulary of the properties                                        *)
(* ------------------------------------------------------------------ *)

IsFanOut(c) == kind[c] \in {"vnic", "disk"}

IsAggregate(c) == kind[c] \in {"cpu", "mem"}

\* The entity resolver has answered call c.
Resolved(c) == Len(log[c]) >= 1 /\ log[c][1].op = "get_vm_moid"

\* The counter names a fan-out inspection queries, in the documented order.
OrderedNames(k) ==
  IF k = "vnic"
  THEN <<"net:received:average", "net:transmitted:average">>
  ELSE <<"disk:read:average", "disk:numberReadAveraged:average",
         "disk:write:average", "disk:numberWriteAveraged:average">>

\* The per-device maps the query engine returned to call c, in call order.
ReturnedMaps(c) ==
  LET Ok(e) == e.op = "query_vm_device_stats" /\ e.raised = NoError
      q == SelectSeq(log[c], Ok)
  IN [i \in 1..Len(q) |-> q[i].ret]

\* Counter name n was resolved and queried successfully by call c.
Answered(c, n) ==
  \E i \in 1..(Len(log[c]) - 1) :
    /\ log[c][i].op = "get_perf_counter_id"
    /\ log[c][i].raised = NoError
    /\ log[c][i].args = <<n>>
    /\ log[c][i + 1].raised = NoError

\* The map the query engine returned to call c for counter name n.
MapFor(c, n) ==
  LET i == CHOOSE i \in 1..(Len(log[c]) - 1) :
             /\ log[c][i].op = "get_perf_counter_id"
             /\ log[c][i].raised = NoError
             /\ log[c][i].args = <<n>>
  IN log[c][i + 1].ret

\* The union of the key sets of the maps returned to call c.
ReturnedIds(c) ==
  LET maps == ReturnedMaps(c)
  IN UNION {DOMAIN maps[i] : i \in 1..Len(maps)}

\* Field i of a pair's stats, in the order of the queried counters.
FieldAt(p, i) ==
  IF p.stats.type = "InterfaceRateStats"
  THEN IF i = 1 THEN p.stats.rx_bytes_rate ELSE p.stats.tx_bytes_rate
  ELSE CASE i = 1 -> p.stats.read_bytes_rate
         [] i = 2 -> p.stats.read_requests_rate
         [] i = 3 -> p.stats.write_bytes_rate
         [] OTHER -> p.stats.write_requests_rate

(* ------------------------------------------------------------------ *)
(* Properties                                                          *)
(* ------------------------------------------------------------------ *)

\* C1: in each of the four inspections, once get_vm_moid has returned None
\* the call has failed with InstanceNotFoundException, its only
\* collaborator call is that get_vm_moid (no get_perf_counter_id, no
\* query), and it has produced no record and no pair.
NotFoundIssuesNoQuery ==
  \A c \in Calls :
    (Resolved(c) /\ log[c][1].ret = None) =>
      /\ pc[c] = "raised"
      /\ error[c] = InstanceNotFoundException
      /\ Len(log[c]) = 1
      /\ yielded[c] = <<>>
      /\ result[c] = NoResult

\* C1 witness: an aggregate and a fan-out inspection of an instance the
\* resolver answered None for have both failed.
NotFoundWitness ==
  /\ kind["a"] = "cpu" /\ kind["b"] = "disk"
  /\ \A c \in Calls : Resolved(c) /\ log[c][1].ret = None /\ pc[c] = "raised"

\* C2 as claimed: a fan-out inspection of an instance that is not in the
\* inventory has raised InstanceNotFoundException as soon as the call has
\* returned to the caller, whether or not the result is iterated.
FanOutNotFoundRaisedByCall ==
  \A c \in Calls :
    (IsFanOut(c) /\ pc[c] # "idle" /\ GetVmMoid(instance[c]) = None) =>
      error[c] = InstanceNotFoundException

\* C2 amended: a fan-out inspection of an instance that is not in the
\* inventory is either an unconsumed generator that has made no
\* collaborator call and raised nothing, or has raised
\* InstanceNotFoundException on the first request for an element, after the
\* single get_vm_moid call and before any pair.
FanOutNotFoundRaisedOnFirstNext ==
  \A c \in Calls :
    (IsFanOut(c) /\ GetVmMoid(instance[c]) = None) =>
      \/ /\ pc[c] = "created"
         /\ error[c] = NoError
         /\ log[c] = <<>>
         /\ yielded[c] = <<>>
      \/ /\ pc[c] = "raised"
         /\ error[c] = InstanceNotFoundException
         /\ Len(log[c]) = 1
         /\ log[c][1].op = "get_vm_moid"
         /\ yielded[c] = <<>>

\* C2 witness: the consumer asked a generator for a missing instance for
\* its first element and got the exception.
FanOutNotFoundWitness ==
  \E c \in Calls :
    /\ kind[c] = "vnic"
    /\ GetVmMoid(instance[c]) = None
    /\ pc[c] = "raised"
    /\ error[c] = InstanceNotFoundException

\* C3: a fully consumed fan-out inspection has yielded exactly one pair per
\* device id of the union of the key sets of all returned maps, and a field
\* whose counter's map lacks the pair's id is 0.
DeviceUnion ==
  \A c \in Calls :
    (IsFanOut(c) /\ pc[c] = "done") =>
      LET maps == ReturnedMaps(c)
      IN /\ Len(maps) = Len(OrderedNames(kind[c]))
         /\ {PairId(p) : p \in Range(yielded[c])} = ReturnedIds(c)
         /\ Len(yielded[c]) = Cardinality(ReturnedIds(c))
         /\ \A p \in Range(yielded[c]) : \A i \in 1..Len(maps) :
              PairId(p) \notin DOMAIN maps[i] => FieldAt(p, i) = 0

\* C3 witness: counter A reported only d1, counter B only d2, and both
\* devices were yielded.
DeviceUnionWitness ==
  \E c \in Calls :
    /\ kind[c] = "vnic" /\ pc[c] = "done"
    /\ DOMAIN ReturnedMaps(c)[1] = {"d1"}
    /\ DOMAIN ReturnedMaps(c)[2] = {"d2"}
    /\ Len(yielded[c]) = 2

\* C6: in every yielded pair each byte-rate field is 1024 times the raw
\* value of its own counter for that device (0 when absent) and each
\* request-rate field is the raw value of its own counter unchanged.
FieldsFromOwnCounter ==
  \A c \in Calls : \A p \in Range(yielded[c]) :
    LET Raw(n) == IF Answered(c, n) THEN Get(MapFor(c, n), PairId(p), 0) ELSE -1
    IN IF kind[c] = "vnic"
       THEN /\ p.stats.rx_bytes_rate = Raw("net:received:average") * 1024
            /\ p.stats.tx_bytes_rate = Raw("net:transmitted:average") * 1024
       ELSE /\ p.stats.read_bytes_rate = Raw("disk:read:average") * 1024
            /\ p.stats.read_requests_rate = Raw("disk:numberReadAveraged:average")
            /\ p.stats.write_bytes_rate = Raw("disk:write:average") * 1024
            /\ p.stats.write_requests_rate = Raw("disk:numberWriteAveraged:average")

\* C6 witness: rx = {d1: 5}, tx = {d1: 7, d2: 5} gave (d1, 5120, 7168) and
\* (d2, 0, 5120).
FieldsWitness ==
  \E c \in Calls :
    /\ kind[c] = "vnic" /\ pc[c] = "done"
    /\ {<<PairId(p), p.stats.rx_bytes_rate, p.stats.tx_bytes_rate>> :
          p \in Range(yielded[c])} = {<<"d1", 5120, 7168>>, <<"d2", 0, 5120>>}

\* C7: when a collaborator call of a fan-out inspection raised, it is the
\* last collaborator call of that inspection, the inspection has ended with
\* that same exception, and the consumer has received no pair (every query
\* precedes the first yield, so no pair precedes a failure either).
FailureAbortsFanOut ==
  \A c \in Calls : \A i \in 1..Len(log[c]) :
    (IsFanOut(c) /\ log[c][i].raised # NoError) =>
      /\ i = Len(log[c])
      /\ pc[c] = "raised"
      /\ error[c] = log[c][i].raised
      /\ yielded[c] = <<>>

\* C7 witness: the query of the third disk counter failed.
FailureWitness ==
  \E c \in Calls :
    /\ kind[c] = "disk" /\ pc[c] = "raised"
    /\ Len(log[c]) = 7
    /\ log[c][7].op = "query_vm_device_stats"
    /\ error[c] = TransportError

\* The pairs call c yields when it runs alone against the answers it got.
PairsAlone(c) ==
  LET names == OrderedNames(kind[c])
      own == [n \in Range(names) |-> MapFor(c, n)]
  IN {PairOf(kind[c], own, id) : id \in ReturnedIds(c)}

\* C8: with two inspections interleaved, each fan-out sequence consists of
\* pairs the inspection yields when run alone against the answers it got,
\* without repetition, and is exactly those pairs once consumed; no
\* inspection raises an error of its own making; self._ops is never
\* reassigned.
InterleavedLikeAlone ==
  /\ ops = "VsphereOperations"
  /\ \A c \in Calls :
       IsFanOut(c) =>
         /\ error[c] # KeyError
         /\ yielded[c] # <<>> =>
              /\ \A n \in Range(OrderedNames(kind[c])) : Answered(c, n)
              /\ Range(yielded[c]) \subseteq PairsAlone(c)
              /\ Cardinality(Range(yielded[c])) = Len(yielded[c])
         /\ pc[c] = "done" =>
              /\ \A n \in Range(OrderedNames(kind[c])) : Answered(c, n)
              /\ Range(yielded[c]) = PairsAlone(c)

\* C8 witness: two fan-out inspections of different instances are both half
\* consumed.
InterleavedWitness ==
  /\ IsFanOut("a") /\ IsFanOut("b")
  /\ instance["a"] # instance["b"]
  /\ \A c \in Calls : Len(yielded[c]) = 1 /\ pending[c] # {}

\* C9: in a fan-out inspection in which nothing raised, the collaborator
\* calls are get_vm_moid(instance) first and once, then for each counter in
\* the fixed order get_perf_counter_id(name) followed by
\* query_vm_device_stats(moid, that id, duration); the unconsumed generator
\* has made no call, and once the pairs are being consumed all calls have
\* been made and none is added.
CallOrder ==
  \A c \in Calls :
    (IsFanOut(c) /\ error[c] = NoError) =>
      LET L == log[c]
          names == OrderedNames(kind[c])
          done == (Len(L) - 1) \div 2
      IN /\ (pc[c] = "created") = (L = <<>>)
         /\ L # <<>> =>
              /\ Len(L) = 1 + 2 * done
              /\ done <= Len(names)
              /\ L[1].op = "get_vm_moid"
              /\ L[1].args = <<instance[c]>>
              /\ \A j \in 1..done :
                   /\ L[2 * j].op = "get_perf_counter_id"
                   /\ L[2 * j].args = <<names[j]>>
                   /\ L[2 * j + 1].op = "query_vm_device_stats"
                   /\ L[2 * j + 1].args = <<L[1].ret, L[2 * j].ret, duration[c]>>
              /\ (pc[c] \in {"iter", "done"}) = (done = Len(names))

\* C9 witness: a consumed disk inspection with a duration made its nine
\* calls.
CallOrderWitness ==
  \E c \in Calls :
    /\ kind[c] = "disk" /\ pc[c] = "done"
    /\ duration[c] = "60"
    /\ Len(log[c]) = 9
    /\ Len(yielded[c]) = 2

\* C4 as claimed: the util of a returned CPUUtilStats is the raw value
\* divided by 100 exactly: 100 * util = raw.
CpuUtilExact ==
  \A c \in Calls :
    (kind[c] = "cpu" /\ pc[c] = "done") => 100 * result[c].util = log[c][3].ret

\* C5 as claimed: the usage of a returned MemoryUsageStats is the raw value
\* divided by 1024 exactly: 1024 * usage = raw.
MemoryUsageExact ==
  \A c \in Calls :
    (kind[c] = "mem" /\ pc[c] = "done") => 1024 * result[c].usage = log[c][3].ret

\* C10 as claimed: two inspections whose entity resolution returned the
\* same value agree on whether the instance is not found.
SameNotFoundDecision ==
  \A c1 \in Calls : \A c2 \in Calls :
    (Resolved(c1) /\ Resolved(c2) /\ log[c1][1].ret = log[c2][1].ret) =>
      ((error[c1] = InstanceNotFoundException) = (error[c2] = InstanceNotFoundException))

====
